---------------------------- MODULE Spec2Model ----------------------------
(***************************************************************************)
(* Time-series storage and aggregation engine of the flood-warnings        *)
(* service: timestamp normalisation (database.py), the month-partitioned   *)
(* record store with its local fallback (storage.py), the range query and  *)
(* the aggregator (database.py).                                           *)
(*                                                                         *)
(* Strings are sequences of character codes, so that isoformat(),          *)
(* fromisoformat(), the slice timestamp[:7] and Python's lexicographic     *)
(* string comparison are computed rather than assumed.  A datetime is a    *)
(* record of its fields; "aware" tells whether it carries a UTC offset.    *)
(***************************************************************************)
EXTENDS Integers, Sequences, FiniteSets, TLC

VARIABLES
    useLocal,    \* GCSStorage.use_local_storage is set (storage.py:75)
    primary,     \* the bucket: month key -> CSV rows (blobs of the GCS bucket)
    secondary,   \* data_cache/: month key -> CSV rows (local files)
    clock,       \* index of the current value of datetime.now()
    stores,      \* number of store calls made so far
    last,        \* the last public call: its arguments and what it returned
    nPhase,      \* normaliser runs: 0 = input drawn, 1 = normalised, 2 = twice
    nIn,         \* normaliser runs: the input string
    nOut,        \* normaliser runs: result of _normalize_timestamp(nIn)
    nOut2,       \* normaliser runs: result of normalising nOut again
    aPhase,      \* aggregator runs: 0 = input drawn, 1 = aggregated
    aIn,         \* aggregator runs: the data points
    aHours,      \* aggregator runs: interval_hours
    aOut,        \* aggregator runs: result of _aggregate_data
    hist,        \* operation runs: what the calls made so far did (see HistIdle)
    pend         \* concurrent runs: the store calls in progress, one per thread

vars == <<useLocal, primary, secondary, clock, stores, last,
          nPhase, nIn, nOut, nOut2, aPhase, aIn, aHours, aOut, hist, pend>>

sysVars  == <<useLocal, primary, secondary, clock, stores, last>>
normVars == <<nPhase, nIn, nOut, nOut2>>
aggVars  == <<aPhase, aIn, aHours, aOut>>
auxVars  == <<hist, pend>>

----------------------------------------------------------------------------
(* Characters and strings                                                  *)

Chr == [dash |-> 45, colon |-> 58, tee |-> 84, dot |-> 46, plus |-> 43,
        zero |-> 48, nine |-> 57, space |-> 32, x |-> 120]

IsDigit(c) == c >= Chr.zero /\ c <= Chr.nine

\* The first position where a and b differ, or where one of them has ended.
RECURSIVE FirstDiff(_, _, _)
FirstDiff(a, b, i) ==
    IF i > Len(a) \/ i > Len(b) \/ a[i] # b[i] THEN i ELSE FirstDiff(a, b, i + 1)

\* Python's str <= str: code-point lexicographic order, a proper prefix first.
StrLeq(a, b) ==
    LET i == FirstDiff(a, b, 1)
    IN  IF i > Len(a) THEN TRUE
        ELSE IF i > Len(b) THEN FALSE
        ELSE a[i] < b[i]

StrLess(a, b) == StrLeq(a, b) /\ a # b

\* s[:n]
Prefix(s, n) == SubSeq(s, 1, IF Len(s) < n THEN Len(s) ELSE n)

\* The decimal digit of n at the place p (1, 10, 100, ...), as a character.
Digit(n, p) == Chr.zero + ((n \div p) % 10)

\* Zero-padded decimals of n (the %02d, %04d, %06d of isoformat and strftime).
Pad2(n) == <<Digit(n, 10), Digit(n, 1)>>

Pad4(n) == <<Digit(n, 1000), Digit(n, 100), Digit(n, 10), Digit(n, 1)>>

Pad6(n) == <<Digit(n, 100000), Digit(n, 10000), Digit(n, 1000),
             Digit(n, 100), Digit(n, 10), Digit(n, 1)>>

\* str(n) of a non-negative int, as csv.DictWriter writes a count cell.
RECURSIVE IntToStr(_)
IntToStr(n) == IF n < 10 THEN <<Chr.zero + n>>
               ELSE Append(IntToStr(n \div 10), Chr.zero + (n % 10))

AllDigits(s) == Len(s) > 0 /\ \A i \in 1..Len(s) : IsDigit(s[i])

\* Value of a string of decimal digits.
RECURSIVE DigitsVal(_)
DigitsVal(s) == IF Len(s) = 0 THEN 0
                ELSE 10 * DigitsVal(SubSeq(s, 1, Len(s) - 1)) + (s[Len(s)] - Chr.zero)

----------------------------------------------------------------------------
(* datetime: calendar, isoformat, fromisoformat, arithmetic                *)

IsLeap(y) == y % 4 = 0 /\ (y % 100 # 0 \/ y % 400 = 0)

DaysInMonth(y, m) ==
    IF m = 2 THEN (IF IsLeap(y) THEN 29 ELSE 28)
    ELSE IF m \in {4, 6, 9, 11} THEN 30 ELSE 31

RECURSIVE DaysBeforeMonth(_, _)
DaysBeforeMonth(y, m) ==
    IF m = 1 THEN 0 ELSE DaysBeforeMonth(y, m - 1) + DaysInMonth(y, m - 1)

DaysBeforeYear(y) ==
    (y - 1) * 365 + (y - 1) \div 4 - (y - 1) \div 100 + (y - 1) \div 400

\* datetime.toordinal()
Ordinal(dt) == DaysBeforeYear(dt.year) + DaysBeforeMonth(dt.year, dt.month) + dt.day

DT(y, mo, d, h, mi, s, us) ==
    [year |-> y, month |-> mo, day |-> d, hour |-> h, minute |-> mi,
     second |-> s, microsecond |-> us, aware |-> FALSE, offset |-> 0]

\* The same wall-clock reading with a UTC offset of off minutes attached.
Aware(dt, off) == [dt EXCEPT !.aware = TRUE, !.offset = off]

\* datetime.isoformat(): YYYY-MM-DDTHH:MM:SS[.ffffff][+HH:MM]
Isoformat(dt) ==
    <<Digit(dt.year, 1000), Digit(dt.year, 100), Digit(dt.year, 10), Digit(dt.year, 1),
      Chr.dash, Digit(dt.month, 10), Digit(dt.month, 1),
      Chr.dash, Digit(dt.day, 10), Digit(dt.day, 1),
      Chr.tee, Digit(dt.hour, 10), Digit(dt.hour, 1),
      Chr.colon, Digit(dt.minute, 10), Digit(dt.minute, 1),
      Chr.colon, Digit(dt.second, 10), Digit(dt.second, 1)>> \o
    (IF dt.microsecond # 0 THEN <<Chr.dot>> \o Pad6(dt.microsecond) ELSE <<>>) \o
    (IF dt.aware
       THEN LET mag == IF dt.offset < 0 THEN -dt.offset ELSE dt.offset
            IN  <<IF dt.offset < 0 THEN Chr.dash ELSE Chr.plus>> \o Pad2(mag \div 60) \o
                <<Chr.colon>> \o Pad2(mag % 60)
       ELSE <<>>)

\* datetime.strftime("%Y-%m")
MonthKey(dt) == Pad4(dt.year) \o <<Chr.dash>> \o Pad2(dt.month)

ParseError == [ok |-> FALSE, dt |-> DT(1, 1, 1, 0, 0, 0, 0)]

\* The characters of s at the positions I are decimal digits.
DigitsAt(s, I) == \A i \in I : IsDigit(s[i])

\* The number written by the two digits s[i], s[i + 1].
TwoDigits(s, i) == 10 * (s[i] - Chr.zero) + (s[i + 1] - Chr.zero)

\* Length of the UTC-offset suffix [+-]HH:MM of s: 6, or 0 when there is none.
OffsetLen(s) ==
    IF Len(s) >= 17 /\ s[Len(s) - 5] \in {Chr.plus, Chr.dash} THEN 6 ELSE 0

\* The time part HH:MM[:SS[.ffffff]] of s, cl characters from position 12 on.
ClockOk(s, cl) ==
    /\ cl \in {5, 8, 15}
    /\ DigitsAt(s, {12, 13, 15, 16}) /\ s[14] = Chr.colon
    /\ cl >= 8 => (s[17] = Chr.colon /\ DigitsAt(s, {18, 19}))
    /\ cl = 15 => (s[20] = Chr.dot /\ DigitsAt(s, 21..26))

\* The offset [+-]HH:MM in the last zl characters of s.
ZoneOk(s, zl) ==
    zl = 0 \/ LET n == Len(s)
              IN  /\ DigitsAt(s, {n - 4, n - 3, n - 1, n}) /\ s[n - 2] = Chr.colon
                  /\ TwoDigits(s, n - 4) < 24
                  /\ TwoDigits(s, n - 1) < 60

\* datetime.fromisoformat(s) on the forms YYYY-MM-DD[*HH:MM[:SS[.ffffff]][+HH:MM]]
\* (any one character may separate date and time); a string of another shape,
\* or a field out of range, raises ValueError, rendered as ParseError.
FromIsoformat(s) ==
    IF ~( /\ Len(s) >= 10
          /\ Len(s) # 11
          /\ DigitsAt(s, {1, 2, 3, 4, 6, 7, 9, 10})
          /\ s[5] = Chr.dash /\ s[8] = Chr.dash )
    THEN ParseError
    ELSE
      LET n   == Len(s)
          y   == 100 * TwoDigits(s, 1) + TwoDigits(s, 3)
          mo  == TwoDigits(s, 6)
          d   == TwoDigits(s, 9)
          zl  == OffsetLen(s)
          cl  == n - 11 - zl
          h   == IF cl >= 5 THEN TwoDigits(s, 12) ELSE 0
          mi  == IF cl >= 5 THEN TwoDigits(s, 15) ELSE 0
          sec == IF cl >= 8 THEN TwoDigits(s, 18) ELSE 0
          us  == IF cl = 15
                   THEN 10000 * TwoDigits(s, 21) + 100 * TwoDigits(s, 23) + TwoDigits(s, 25)
                   ELSE 0
          off == IF zl = 0 THEN 0
                 ELSE (IF s[n - 5] = Chr.dash THEN -1 ELSE 1) *
                      (60 * TwoDigits(s, n - 4) + TwoDigits(s, n - 1))
      IN  IF /\ y >= 1 /\ mo >= 1 /\ mo <= 12
             /\ d >= 1 /\ d <= DaysInMonth(y, mo)
             /\ (n = 10 \/ (ClockOk(s, cl) /\ ZoneOk(s, zl)))
             /\ h < 24 /\ mi < 60 /\ sec < 60
          THEN [ok |-> TRUE,
                dt |-> [year |-> y, month |-> mo, day |-> d, hour |-> h,
                        minute |-> mi, second |-> sec, microsecond |-> us,
                        aware |-> zl # 0, offset |-> off]]
          ELSE ParseError

\* A point on the time line as <<days, seconds, microseconds>>, normalised the
\* way timedelta is; an aware datetime is taken to UTC first.
Norm3(days, secs, us) ==
    LET s2 == secs + us \div 1000000
    IN  <<days + s2 \div 86400, s2 % 86400, us % 1000000>>

Instant(dt) ==
    Norm3(Ordinal(dt), dt.hour * 3600 + dt.minute * 60 + dt.second - dt.offset * 60,
          dt.microsecond)

TripleLess(a, b) ==
    \/ a[1] < b[1]
    \/ a[1] = b[1] /\ a[2] < b[2]
    \/ a[1] = b[1] /\ a[2] = b[2] /\ a[3] < b[3]

\* Comparing or subtracting a naive and an aware datetime raises TypeError.
Comparable(a, b) == a.aware = b.aware

\* a < b + timedelta(hours = h), for comparable a and b
BeforePlusHours(a, b, h) ==
    LET ib == Instant(b)
    IN  TripleLess(Instant(a), Norm3(ib[1], ib[2] + h * 3600, ib[3]))

\* b - a as a timedelta <<days, seconds, microseconds>>
TimeDiff(b, a) ==
    LET ia == Instant(a)
        ib == Instant(b)
    IN  Norm3(ib[1] - ia[1], ib[2] - ia[2], ib[3] - ia[3])

\* td > timedelta(days = n)
LongerThanDays(td, n) == TripleLess(<<n, 0, 0>>, td)

----------------------------------------------------------------------------
(* Inputs of the store runs                                                *)

\* The readings of datetime.now() the runs pass through: the last quarter hour
\* of January 2024 and the first minute of February.
ClockTimes == <<DT(2024, 1, 31, 23, 50, 0, 500000), DT(2024, 2, 1, 0, 0, 30, 250000)>>

\* Timestamps handed to store_counts besides the fetch job's now().isoformat():
\* two in one quarter hour, one of the next quarter with a UTC offset, and one
\* that fromisoformat rejects (month 13).
StoreInputs ==
    { Isoformat(DT(2024, 1, 1, 0, 7, 0, 0)),
      Isoformat(DT(2024, 1, 1, 0, 7, 59, 500000)),
      Isoformat(Aware(DT(2024, 1, 1, 0, 20, 0, 0), 0)),
      Isoformat(DT(2024, 13, 1, 0, 0, 0, 0)) }

----------------------------------------------------------------------------
(* database._normalize_timestamp                                           *)

\* Mutants: the nearest quarter hour instead of the one below; the quarter's
\* index instead of its minute.
NormalizedMinutesNearest(minutes) == (((minutes + 7) \div 15) * 15) % 60

NormalizedMinutesIndex(minutes) == minutes \div 15

NormalizedMinutes(minutes) == (minutes \div 15) * 15

\* Mutant: the seconds and microseconds are kept.
NormalizeTimestampKeepSeconds(timestamp) ==
    LET p == FromIsoformat(timestamp)
    IN  IF ~p.ok THEN [ok |-> FALSE, ts |-> <<>>]
        ELSE [ok |-> TRUE,
              ts |-> Isoformat([p.dt EXCEPT !.minute = NormalizedMinutes(p.dt.minute)])]

\* Result [ok, ts]: ok = FALSE when fromisoformat raised (the error is re-raised).
NormalizeTimestamp(timestamp) ==
    LET p == FromIsoformat(timestamp)
    IN  IF ~p.ok THEN [ok |-> FALSE, ts |-> <<>>]
        ELSE [ok |-> TRUE,
              ts |-> Isoformat([p.dt EXCEPT !.minute = NormalizedMinutes(p.dt.minute),
                                            !.second = 0, !.microsecond = 0])]


----------------------------------------------------------------------------
(* Records, CSV rows and the two stores                                    *)

Rec(ts, sev, war, ale) ==
    [timestamp |-> ts, severes |-> sev, warnings |-> war, alerts |-> ale]

\* A count handed to store_counts is an int n >= 0, written n, or the str of
\* one, written TextCount(n): the values below zero stand for the strings.
TextCount(n) == 0 - (n + 1)

\* isinstance(v, (int, float))
IsNumeric(v) == v >= 0

\* str(v), the cell csv.DictWriter writes for a count.
CellText(v) == IF IsNumeric(v) THEN IntToStr(v) ELSE IntToStr(0 - (v + 1))

\* csv.DictWriter.writerows: every count becomes its text.
CsvRow(d) == [timestamp |-> d.timestamp, severes |-> CellText(d.severes),
              warnings |-> CellText(d.warnings), alerts |-> CellText(d.alerts)]

CsvRows(data) == [i \in 1..Len(data) |-> CsvRow(data[i])]

\* int(row[...]) succeeds on every count cell of the row.
RowParses(row) ==
    AllDigits(row.severes) /\ AllDigits(row.warnings) /\ AllDigits(row.alerts)

ParseRow(row) == Rec(row.timestamp, DigitsVal(row.severes),
                     DigitsVal(row.warnings), DigitsVal(row.alerts))

ParseRows(rows) == [i \in 1..Len(rows) |-> ParseRow(rows[i])]

\* Every record has a timestamp fromisoformat takes and three numeric counts
\* (the records of the model always have the four fields).
ValidateDataStructure(data) ==
    \A i \in 1..Len(data) :
        /\ FromIsoformat(data[i].timestamp).ok
        /\ IsNumeric(data[i].severes)
        /\ IsNumeric(data[i].warnings)
        /\ IsNumeric(data[i].alerts)

\* Mutant: the write empties the files of the other months.
PutFileAlone(store, filename, rows) ==
    [k \in DOMAIN store \cup {filename} |-> IF k = filename THEN rows ELSE <<>>]

\* A file (blob) of a store, replaced as a whole.
PutFile(store, filename, rows) ==
    [k \in DOMAIN store \cup {filename} |-> IF k = filename THEN rows ELSE store[k]]

ReadLocalCsv(filename) ==
    IF filename \notin DOMAIN secondary THEN <<>>
    ELSE IF \A i \in 1..Len(secondary[filename]) : RowParses(secondary[filename][i])
         THEN ParseRows(secondary[filename])
         ELSE <<>>

\* gcsFails: the bucket call of this read raises.  No exception leaves the
\* function, so the retry wrapper never makes a second attempt.
ReadCsv(filename, gcsFails) ==
    IF useLocal THEN ReadLocalCsv(filename)
    ELSE IF gcsFails THEN ReadLocalCsv(filename)
    ELSE IF filename \notin DOMAIN primary THEN <<>>
    ELSE IF /\ \A i \in 1..Len(primary[filename]) : RowParses(primary[filename][i])
            /\ ValidateDataStructure(ParseRows(primary[filename]))
         THEN ParseRows(primary[filename])
         ELSE ReadLocalCsv(filename)

\* The stores after _write_csv, and which of them the write reached.  A failed
\* validation raises on each of the three attempts and nothing is written.
WriteCsv(filename, data, gcsFails) ==
    IF useLocal
      THEN [primary |-> primary, secondary |-> PutFile(secondary, filename, CsvRows(data)),
            wrotePrimary |-> FALSE, wroteSecondary |-> TRUE]
    ELSE IF ~ValidateDataStructure(data)
      THEN [primary |-> primary, secondary |-> secondary,
            wrotePrimary |-> FALSE, wroteSecondary |-> FALSE]
    ELSE IF gcsFails
      THEN [primary |-> primary, secondary |-> PutFile(secondary, filename, CsvRows(data)),
            wrotePrimary |-> FALSE, wroteSecondary |-> TRUE]
    ELSE [primary |-> PutFile(primary, filename, CsvRows(data)),
          secondary |-> PutFile(secondary, filename, CsvRows(data)),
          wrotePrimary |-> TRUE, wroteSecondary |-> TRUE]

\* list.sort(key = timestamp): stable, by string order.
InsertSorted(sorted, d) ==
    LET k == Cardinality({i \in 1..Len(sorted) : StrLeq(sorted[i].timestamp, d.timestamp)})
    IN  SubSeq(sorted, 1, k) \o <<d>> \o SubSeq(sorted, k + 1, Len(sorted))

RECURSIVE SortByTimestamp(_)
SortByTimestamp(data) ==
    IF Len(data) = 0 THEN <<>>
    ELSE InsertSorted(SortByTimestamp(SubSeq(data, 1, Len(data) - 1)), data[Len(data)])

\* Mutants of the merge: an old entry equal to the new one is kept beside it;
\* the old entry is kept; the list is left unsorted.
UpsertBesideEqual(existing, newData) ==
    SortByTimestamp(Append(SelectSeq(existing,
        LAMBDA d : d.timestamp # newData.timestamp \/ d = newData), newData))

UpsertKeepOld(existing, newData) == SortByTimestamp(Append(existing, newData))

UpsertNoSort(existing, newData) ==
    <<newData>> \o SelectSeq(existing, LAMBDA d : d.timestamp # newData.timestamp)

\* storage.store_counts: drop the entry of the same timestamp, append, sort.
Upsert(existing, newData) ==
    SortByTimestamp(
        Append(SelectSeq(existing, LAMBDA d : d.timestamp # newData.timestamp), newData))

DefaultRecord(nowDt) == Rec(Isoformat(nowDt), 0, 0, 0)

\* _create_default_response
DefaultResponse(nowDt) == <<DefaultRecord(nowDt)>>

----------------------------------------------------------------------------
(* database._aggregate_data                                                *)

\* round(mean(...)) of ints: the float quotient rounded half to even.
RoundMeanDown(total, n) == total \div n

RoundMean(total, n) ==
    LET q == total \div n
        r == total % n
    IN  IF 2 * r < n THEN q
        ELSE IF 2 * r > n THEN q + 1
        ELSE IF q % 2 = 0 THEN q ELSE q + 1

RECURSIVE SumField(_, _)
SumField(group, f) ==
    IF Len(group) = 0 THEN 0
    ELSE SumField(SubSeq(group, 1, Len(group) - 1), f) + group[Len(group)][f]

\* Mutant: the group is stamped with the timestamp of its last member.
AverageGroupStampedLast(group, intervalStart) ==
    Rec(group[Len(group)].timestamp,
        RoundMean(SumField(group, "severes"), Len(group)),
        RoundMean(SumField(group, "warnings"), Len(group)),
        RoundMean(SumField(group, "alerts"), Len(group)))

\* avg_data of one group, stamped with the start of its interval.
AverageGroup(group, intervalStart) ==
    Rec(Isoformat(intervalStart),
        RoundMean(SumField(group, "severes"), Len(group)),
        RoundMean(SumField(group, "warnings"), Len(group)),
        RoundMean(SumField(group, "alerts"), Len(group)))

\* The loop over sorted_data from index i on.  ok = FALSE: an exception was
\* raised (an unparseable timestamp, or a naive datetime compared with an aware
\* one).
RECURSIVE AggregateLoop(_, _, _, _, _, _)
AggregateLoop(sorted, i, hours, out, group, intervalStart) ==
    IF i > Len(sorted)
      THEN [ok |-> TRUE, out |-> Append(out, AverageGroup(group, intervalStart))]
      ELSE LET p == FromIsoformat(sorted[i].timestamp)
           IN  IF ~p.ok \/ ~Comparable(p.dt, intervalStart)
                 THEN [ok |-> FALSE, out |-> <<>>]
               ELSE IF BeforePlusHours(p.dt, intervalStart, hours)
                 THEN AggregateLoop(sorted, i + 1, hours, out,
                                    Append(group, sorted[i]), intervalStart)
               ELSE AggregateLoop(sorted, i + 1, hours,
                                  Append(out, AverageGroup(group, intervalStart)),
                                  <<sorted[i]>>, p.dt)

\* Mutant: one zero-count record for no input.
AggregateDataZeroForNone(dataPoints, intervalHours) ==
    IF Len(dataPoints) = 0 THEN <<Rec(<<>>, 0, 0, 0)>>
    ELSE LET sorted == SortByTimestamp(dataPoints)
             first  == FromIsoformat(sorted[1].timestamp)
         IN  IF ~first.ok THEN <<>>
             ELSE LET r == AggregateLoop(sorted, 1, intervalHours, <<>>, <<>>, first.dt)
                  IN  IF r.ok THEN r.out ELSE <<>>

\* _aggregate_data: [] for no input and for any exception.
AggregateData(dataPoints, intervalHours) ==
    IF Len(dataPoints) = 0 THEN <<>>
    ELSE LET sorted == SortByTimestamp(dataPoints)
             first  == FromIsoformat(sorted[1].timestamp)
         IN  IF ~first.ok THEN <<>>
             ELSE LET r == AggregateLoop(sorted, 1, intervalHours, <<>>, <<>>, first.dt)
                  IN  IF r.ok THEN r.out ELSE <<>>

----------------------------------------------------------------------------
(* Range query: storage.get_counts_between_dates and its database wrapper  *)

\* Mutant: a range of more than 365 days is rejected too.
ValidateDateRangeYearAtMost(startDate, endDate) ==
    /\ ~TripleLess(Instant(endDate), Instant(startDate))
    /\ ~LongerThanDays(TimeDiff(endDate, startDate), 365)

\* _validate_date_range: start > end is refused; an end after now and a span
\* of more than 365 days are printed as warnings only.
ValidateDateRange(startDate, endDate) ==
    ~TripleLess(Instant(endDate), Instant(startDate))

\* The months from (y, m) to (ey, em) inclusive, as "YYYY-MM" keys.
RECURSIVE MonthsFrom(_, _, _, _)
MonthsFrom(y, m, ey, em) ==
    IF y > ey \/ (y = ey /\ m > em) THEN <<>>
    ELSE <<Pad4(y) \o <<Chr.dash>> \o Pad2(m)>> \o
         (IF m = 12 THEN MonthsFrom(y + 1, 1, ey, em) ELSE MonthsFrom(y, m + 1, ey, em))

\* Mutant: the month of the end date is left out.
MonthsBeforeEnd(startDate, endDate) ==
    MonthsFrom(startDate.year, startDate.month, endDate.year, endDate.month - 1)

\* months: from the first of start_date's month while current <= the first of
\* end_date's month.
Months(startDate, endDate) ==
    MonthsFrom(startDate.year, startDate.month, endDate.year, endDate.month)

\* all_data: the partitions of the months, concatenated; failing = the month
\* keys whose bucket read raises.
RECURSIVE ReadMonths(_, _)
ReadMonths(months, failing) ==
    IF Len(months) = 0 THEN <<>>
    ELSE ReadCsv(months[1], months[1] \in failing) \o
         ReadMonths(SubSeq(months, 2, Len(months)), failing)

\* Mutant of the filter: the end bound is dropped.
InRangeNoEnd(d, startStr, endStr) == StrLeq(startStr, d.timestamp)

InRange(d, startStr, endStr) ==
    StrLeq(startStr, d.timestamp) /\ StrLeq(d.timestamp, endStr)

\* storage.get_counts_between_dates
StorageCountsBetween(startDate, endDate, failing, nowDt) ==
    IF ~ValidateDateRange(startDate, endDate) THEN DefaultResponse(nowDt)
    ELSE LET allData == ReadMonths(Months(startDate, endDate), failing)
         IN  IF Len(allData) = 0 THEN DefaultResponse(nowDt)
             ELSE IF ~ValidateDataStructure(allData) THEN DefaultResponse(nowDt)
             ELSE LET startStr == Isoformat(startDate)
                      endStr   == Isoformat(endDate)
                      filtered ==
                        SortByTimestamp(SelectSeq(allData,
                            LAMBDA d : InRange(d, startStr, endStr)))
                  IN  IF Len(filtered) = 0 THEN DefaultResponse(nowDt) ELSE filtered

\* Mutant of the policy: the thresholds are inclusive.
IntervalHoursInclusive(startDate, endDate) ==
    LET timeDiff == TimeDiff(endDate, startDate)
    IN  IF ~TripleLess(timeDiff, <<7, 0, 0>>) THEN 6
        ELSE IF ~TripleLess(timeDiff, <<2, 0, 0>>) THEN 2
        ELSE IF ~TripleLess(timeDiff, <<1, 0, 0>>) THEN 1
        ELSE 0

\* The interval_hours database.get_counts_between_dates picks; 0 = no aggregation.
IntervalHours(startDate, endDate) ==
    LET timeDiff == TimeDiff(endDate, startDate)
    IN  IF LongerThanDays(timeDiff, 7) THEN 6
        ELSE IF LongerThanDays(timeDiff, 2) THEN 2
        ELSE IF LongerThanDays(timeDiff, 1) THEN 1
        ELSE 0

\* database.get_counts_between_dates, given the storage layer's results
CountsBetween(results, startDate, endDate, nowDt) ==
    IF Len(results) = 0 THEN DefaultResponse(nowDt)
    ELSE SortByTimestamp(
           IF IntervalHours(startDate, endDate) = 0 THEN results
           ELSE AggregateData(results, IntervalHours(startDate, endDate)))

----------------------------------------------------------------------------
(* Latest                                                                  *)

\* Mutant: the first record of the partition instead of the last.
LatestOfFirst(data, nowDt) == IF Len(data) = 0 THEN DefaultRecord(nowDt) ELSE data[1]

\* storage.get_latest_counts, given the partition read for the current month
LatestOf(data, nowDt) == IF Len(data) = 0 THEN DefaultRecord(nowDt) ELSE data[Len(data)]

----------------------------------------------------------------------------
(* Bounds and inputs of the store runs                                     *)

MaxStores == 2

Now == ClockTimes[clock]

CountInputs ==
    { [severes |-> 0, warnings |-> 1, alerts |-> 2],
      [severes |-> 1, warnings |-> 4, alerts |-> 12] }

\* <<start_date, end_date>> of the range queries: spans of exactly 1, 2 and 7
\* days and one microsecond more, two ranges over two partitions, a year
\* boundary, and a reversed range.
QueryRanges ==
    { <<DT(2024, 1, 1, 0, 0, 0, 0), DT(2024, 1, 2, 0, 0, 0, 0)>>,
      <<DT(2024, 1, 1, 0, 0, 0, 0), DT(2024, 1, 2, 0, 0, 0, 1)>>,
      <<DT(2024, 1, 1, 0, 0, 0, 0), DT(2024, 1, 3, 0, 0, 0, 0)>>,
      <<DT(2024, 1, 1, 0, 0, 0, 0), DT(2024, 1, 3, 0, 0, 0, 1)>>,
      <<DT(2024, 1, 1, 0, 0, 0, 0), DT(2024, 1, 8, 0, 0, 0, 0)>>,
      <<DT(2024, 1, 1, 0, 0, 0, 0), DT(2024, 1, 8, 0, 0, 0, 1)>>,
      <<DT(2024, 1, 1, 0, 15, 0, 0), DT(2024, 1, 1, 0, 45, 0, 0)>>,
      <<DT(2024, 1, 31, 0, 0, 0, 0), DT(2024, 2, 1, 0, 0, 0, 0)>>,
      <<DT(2024, 1, 1, 0, 0, 0, 0), DT(2024, 2, 2, 0, 0, 0, 0)>>,
      <<DT(2023, 12, 31, 0, 0, 0, 0), DT(2024, 1, 1, 0, 0, 0, 0)>>,
      <<DT(2024, 2, 2, 0, 0, 0, 0), DT(2024, 1, 1, 0, 0, 0, 0)>> }

NoDate == DT(1, 1, 1, 0, 0, 0, 0)

NoCounts == [severes |-> 0, warnings |-> 0, alerts |-> 0]

\* The record of a call: op, the arguments, and what the call read, wrote and
\* returned.
Idle ==
    [op |-> "none", ts |-> <<>>, counts |-> NoCounts, norm |-> <<>>, key |-> <<>>,
     existing |-> <<>>, readFails |-> FALSE, writeFails |-> FALSE,
     wrotePrimary |-> FALSE,
     wroteSecondary |-> FALSE, start |-> NoDate, end |-> NoDate, months |-> <<>>,
     raw |-> <<>>, hours |-> 0, result |-> <<>>, now |-> NoDate,
     raised |-> FALSE, page |-> 0, perPage |-> 0, failing |-> {}]

NoFiles == [k \in {} |-> <<>>]

NormIdle == /\ nPhase = 0 /\ nIn = <<>>
            /\ nOut = [ok |-> FALSE, ts |-> <<>>]
            /\ nOut2 = [ok |-> FALSE, ts |-> <<>>]

AggIdle == aPhase = 0 /\ aIn = <<>> /\ aHours = 1 /\ aOut = <<>>

\* What the operation runs remember of the calls made so far: stored, the
\* records of the store calls that returned, the latest per timestamp;
\* fellBack, a call used the local files because a bucket call of it failed;
\* contacted, the last call called the bucket; readFailed, the bucket call of
\* the last call's partition read raised; readAttempts and writeAttempts, the
\* runs of _read_csv's and _write_csv's body the retry wrapper made in the
\* last call; swallowed, the last call caught an exception of its write.
HistIdle ==
    [stored |-> {}, fellBack |-> FALSE, contacted |-> FALSE, readFailed |-> FALSE,
     readAttempts |-> 0, writeAttempts |-> 0, swallowed |-> FALSE]

SysIdle == /\ useLocal = TRUE /\ primary = NoFiles /\ secondary = NoFiles
           /\ clock = 1 /\ stores = 0 /\ last = Idle
           /\ hist = HistIdle /\ pend = <<>>

----------------------------------------------------------------------------
(* The store runs: the public calls of database.py on the storage object   *)

\* GCSStorage.__init__ either reaches the bucket or sets use_local_storage.
Init ==
    /\ useLocal \in BOOLEAN
    /\ primary = NoFiles
    /\ secondary = NoFiles
    /\ clock = 1
    /\ stores = 0
    /\ last = Idle
    /\ hist = HistIdle
    /\ pend = <<>>
    /\ NormIdle
    /\ AggIdle

Outcomes == IF useLocal THEN {FALSE} ELSE BOOLEAN

\* A read changes no file and no flag, so a run ends with its first read: the
\* calls after it would repeat the runs that leave the read out.
Answered == last.op \in {"latest", "range", "historical"}

\* database.store_counts(timestamp, data) down to the files written.
StoreCounts(timestamp, data, readFails, writeFails) ==
    /\ ~Answered
    /\ stores < MaxStores
    /\ stores' = stores + 1
    /\ LET n == NormalizeTimestamp(timestamp)
       IN  IF ~n.ok
             THEN /\ last' = [Idle EXCEPT !.op = "store_raised", !.ts = timestamp,
                                          !.now = Now]
                  /\ UNCHANGED <<primary, secondary>>
             ELSE LET key      == Prefix(n.ts, 7)
                      existing == ReadCsv(key, readFails)
                      newData  == Rec(n.ts, data.severes, data.warnings, data.alerts)
                      w        == WriteCsv(key, Upsert(existing, newData), writeFails)
                  IN  /\ primary' = w.primary
                      /\ secondary' = w.secondary
                      /\ last' = [Idle EXCEPT !.op = "store", !.ts = timestamp,
                                     !.counts = data, !.norm = n.ts, !.key = key,
                                     !.existing = existing, !.writeFails = writeFails,
                                     !.wrotePrimary = w.wrotePrimary,
                                     !.wroteSecondary = w.wroteSecondary, !.now = Now]
    /\ UNCHANGED <<useLocal, clock, normVars, aggVars, pend>>

Store ==
    \E timestamp \in StoreInputs \cup {Isoformat(Now)}, data \in CountInputs,
       readFails \in Outcomes, writeFails \in Outcomes :
        StoreCounts(timestamp, data, readFails, writeFails) /\ UNCHANGED hist

\* database.get_latest_counts()
GetLatestCounts(readFails) ==
    /\ ~Answered
    /\ LET data == ReadCsv(MonthKey(Now), readFails)
       IN  last' = [Idle EXCEPT !.op = "latest", !.key = MonthKey(Now),
                                !.existing = data, !.readFails = readFails,
                                !.result = <<LatestOf(data, Now)>>, !.now = Now]
    /\ UNCHANGED <<useLocal, primary, secondary, clock, stores, normVars, aggVars, pend>>

Latest == \E readFails \in Outcomes : GetLatestCounts(readFails) /\ UNCHANGED hist

\* database.get_counts_between_dates(start_date, end_date)
GetCountsBetweenDates(startDate, endDate, failing) ==
    /\ ~Answered
    /\ LET raw == StorageCountsBetween(startDate, endDate, failing, Now)
       IN  last' = [Idle EXCEPT !.op = "range", !.start = startDate, !.end = endDate,
                       !.months = IF ValidateDateRange(startDate, endDate)
                                    THEN Months(startDate, endDate) ELSE <<>>,
                       !.raw = raw, !.hours = IntervalHours(startDate, endDate),
                       !.result = CountsBetween(raw, startDate, endDate, Now),
                       !.now = Now]
    /\ UNCHANGED <<useLocal, primary, secondary, clock, stores, normVars, aggVars, pend>>

Range ==
    \E r \in QueryRanges :
      LET months == Months(r[1], r[2])
      IN  \E failing \in (IF useLocal THEN {{}}
                          ELSE SUBSET {months[i] : i \in 1..Len(months)}) :
            GetCountsBetweenDates(r[1], r[2], failing) /\ UNCHANGED hist

\* Time passes: datetime.now() moves to its next reading.
Tick ==
    /\ ~Answered
    /\ clock < Len(ClockTimes)
    /\ clock' = clock + 1
    /\ UNCHANGED <<useLocal, primary, secondary, stores, last, normVars, aggVars, auxVars>>

Next == Store \/ Latest \/ Range \/ Tick

Spec == Init /\ [][Next]_vars

----------------------------------------------------------------------------
(* The operation runs: the calls of the fetch job and of the routes, with   *)
(* inputs of every kind, remembering what the calls did                     *)

\* The parameters of database.get_counts_between_dates(start_date, end_date).
CountsBetweenParams == 2

\* A call of database.get_counts_between_dates with the positional arguments
\* args: Python raises TypeError before the body runs unless there is one
\* argument for each parameter.
CallCountsBetween(args, failing, nowDt) ==
    IF Len(args) # CountsBetweenParams
      THEN [raised |-> TRUE, result |-> <<>>]
      ELSE [raised |-> FALSE,
            result |-> CountsBetween(StorageCountsBetween(args[1], args[2], failing, nowDt),
                                     args[1], args[2], nowDt)]

\* main.get_historical_data: the route hands start_date, end_date, page and
\* per_page to database.get_counts_between_dates and catches nothing.
GetHistoricalData(startDate, endDate, page, perPage, failing) ==
    /\ ~Answered
    /\ LET r == CallCountsBetween(<<startDate, endDate, page, perPage>>, failing, Now)
       IN  last' = [Idle EXCEPT !.op = "historical", !.start = startDate,
                                !.end = endDate, !.page = page, !.perPage = perPage,
                                !.failing = failing,
                                !.raised = r.raised, !.result = r.result, !.now = Now]
    /\ UNCHANGED <<useLocal, primary, secondary, clock, stores, normVars, aggVars, pend>>

\* max_attempts of retry_operation
MaxAttempts == 3

\* retry_operation: the runs of the wrapped body when run i raises iff
\* raising[i]; the wrapper returns at the first run that does not raise and
\* re-raises after the last.
RetryOperation(raising) ==
    LET passed == {i \in 1..MaxAttempts : ~raising[i]}
    IN  IF passed = {}
          THEN [attempts |-> MaxAttempts, raised |-> TRUE]
          ELSE [attempts |-> CHOOSE i \in passed : \A j \in passed : i <= j,
                raised |-> FALSE]

\* _read_csv's body catches every exception of the bucket read and returns
\* the local partition, and _read_local_csv catches its own: no run raises.
ReadCsvRaising(filename, gcsFails) == [i \in 1..MaxAttempts |-> FALSE]

\* _write_csv's body raises ValueError when the bucket is in use and the
\* validation fails; a failed upload is caught in the body.
WriteCsvRaising(filename, data, gcsFails) ==
    [i \in 1..MaxAttempts |-> ~useLocal /\ ~ValidateDataStructure(data)]

\* Timestamps and counts handed to store_counts: two quarter hours of one
\* month, a timestamp fromisoformat rejects, and counts with a str in them.
OpsTimestamps ==
    { Isoformat(DT(2024, 1, 1, 0, 7, 0, 0)),
      Isoformat(DT(2024, 1, 1, 0, 20, 0, 0)),
      Isoformat(DT(2024, 13, 1, 0, 0, 0, 0)) }

OpsCounts ==
    { [severes |-> 0, warnings |-> 1, alerts |-> 2],
      [severes |-> TextCount(3), warnings |-> 4, alerts |-> 12] }

\* <<start_date, end_date>>: a quarter day holding the stored timestamps, the
\* day before it, a reversed range, a day ending after now, and a range of
\* more than 365 days ending after now.
OpsRanges ==
    { <<DT(2024, 1, 1, 0, 0, 0, 0), DT(2024, 1, 1, 6, 0, 0, 0)>>,
      <<DT(2023, 12, 31, 0, 0, 0, 0), DT(2023, 12, 31, 12, 0, 0, 0)>>,
      <<DT(2024, 1, 1, 6, 0, 0, 0), DT(2024, 1, 1, 0, 0, 0, 0)>>,
      <<DT(2024, 1, 31, 12, 0, 0, 0), DT(2024, 2, 1, 12, 0, 0, 0)>>,
      <<DT(2023, 1, 1, 0, 0, 0, 0), DT(2024, 2, 1, 12, 0, 0, 0)>> }

\* page and per_page of the query string
Pages == 1..3

PerPages == {1, 2}

\* The month keys whose bucket read raises: none, or every one.
FailingSets(startDate, endDate) ==
    LET months == Months(startDate, endDate)
    IN  IF useLocal THEN {{}} ELSE {{}, {months[i] : i \in 1..Len(months)}}

\* The stored records after a store of d: d replaces the one of its timestamp.
Remember(stored, d) == {e \in stored : e.timestamp # d.timestamp} \cup {d}

OpsStore ==
    \E timestamp \in OpsTimestamps \cup {Isoformat(Now)}, data \in OpsCounts,
       readFails \in Outcomes, writeFails \in Outcomes :
        /\ StoreCounts(timestamp, data, readFails, writeFails)
        /\ LET n       == NormalizeTimestamp(timestamp)
               key     == Prefix(n.ts, 7)
               newData == Rec(n.ts, data.severes, data.warnings, data.alerts)
               written == Upsert(ReadCsv(key, readFails), newData)
               rd      == RetryOperation(ReadCsvRaising(key, readFails))
               wr      == RetryOperation(WriteCsvRaising(key, written, writeFails))
           IN  hist' =
                 IF ~n.ok THEN [hist EXCEPT !.contacted = FALSE, !.readFailed = FALSE,
                                            !.readAttempts = 0, !.writeAttempts = 0,
                                            !.swallowed = FALSE]
                 ELSE [stored |-> Remember(hist.stored, newData),
                       fellBack |-> hist.fellBack \/
                                      (~useLocal /\ (readFails \/ (~wr.raised /\ writeFails))),
                       contacted |-> ~useLocal,
                       readFailed |-> ~useLocal /\ readFails,
                       readAttempts |-> rd.attempts,
                       writeAttempts |-> wr.attempts,
                       swallowed |-> wr.raised]

OpsLatest ==
    \E readFails \in Outcomes :
        /\ GetLatestCounts(readFails)
        /\ hist' = [hist EXCEPT
                      !.fellBack = hist.fellBack \/ (~useLocal /\ readFails),
                      !.contacted = ~useLocal,
                      !.readFailed = ~useLocal /\ readFails,
                      !.readAttempts =
                          RetryOperation(ReadCsvRaising(MonthKey(Now), readFails)).attempts,
                      !.writeAttempts = 0, !.swallowed = FALSE]

\* What a range read leaves in the memory of the calls.
AfterRangeRead(startDate, endDate, failing) ==
    LET months == IF ValidateDateRange(startDate, endDate)
                    THEN Months(startDate, endDate) ELSE <<>>
        failed == \E i \in 1..Len(months) : months[i] \in failing
    IN  [hist EXCEPT
           !.fellBack = hist.fellBack \/ (~useLocal /\ failed),
           !.contacted = ~useLocal /\ Len(months) > 0,
           !.readFailed = ~useLocal /\ failed,
           !.readAttempts =
               IF Len(months) = 0 THEN 0
               ELSE RetryOperation(ReadCsvRaising(months[1], failed)).attempts,
           !.writeAttempts = 0, !.swallowed = FALSE]

OpsRange ==
    \E r \in OpsRanges :
      \E failing \in FailingSets(r[1], r[2]) :
        /\ GetCountsBetweenDates(r[1], r[2], failing)
        /\ hist' = AfterRangeRead(r[1], r[2], failing)

\* GET /api/historical with start_date, end_date, page and per_page.
OpsHistorical ==
    \E r \in OpsRanges, page \in Pages, perPage \in PerPages :
      \E failing \in FailingSets(r[1], r[2]) :
        /\ GetHistoricalData(r[1], r[2], page, perPage, failing)
        /\ hist' = [hist EXCEPT !.contacted = FALSE, !.readFailed = FALSE,
                                !.readAttempts = 0, !.writeAttempts = 0,
                                !.swallowed = FALSE]

NextOps == OpsStore \/ OpsLatest \/ OpsRange \/ OpsHistorical

SpecOps == Init /\ [][NextOps]_vars

----------------------------------------------------------------------------
(* The overlapping stores: two threads in store_counts at once, each call   *)
(* split where it has read the partition and not yet written it             *)

\* The scheduler's thread running the fetch job, and the main thread running
\* the first fetch (or any other caller of store_counts).
Writers == {"job", "main"}

RaceTimestamps ==
    { Isoformat(DT(2024, 1, 1, 0, 7, 0, 0)),
      Isoformat(DT(2024, 1, 1, 0, 20, 0, 0)) }

\* The partition an earlier store left in both stores, if there was one.
EarlierRows == <<CsvRow(Rec(Isoformat(DT(2024, 1, 1, 0, 45, 0, 0)), 2, 2, 2))>>

EarlierFiles == [k \in {Prefix(EarlierRows[1].timestamp, 7)} |-> EarlierRows]

NotCalled ==
    [pc |-> "idle", norm |-> <<>>, key |-> <<>>, counts |-> NoCounts,
     existing |-> <<>>, early |-> FALSE]

InitRace ==
    /\ useLocal \in BOOLEAN
    /\ secondary \in {NoFiles, EarlierFiles}
    /\ primary = IF useLocal THEN NoFiles ELSE secondary
    /\ clock = 1
    /\ stores = 0
    /\ last = Idle
    /\ hist = HistIdle
    /\ pend = [w \in Writers |-> NotCalled]
    /\ NormIdle
    /\ AggIdle

\* store_counts up to existing_data = self._read_csv(filename); early: no
\* thread has written the partition yet.
BeginStore(w, timestamp, data, readFails) ==
    /\ pend[w].pc = "idle"
    /\ LET n   == NormalizeTimestamp(timestamp)
           key == Prefix(n.ts, 7)
       IN  /\ n.ok
           /\ pend' = [pend EXCEPT ![w] =
                         [pc |-> "read", norm |-> n.ts, key |-> key, counts |-> data,
                          existing |-> ReadCsv(key, readFails),
                          early |-> \A v \in Writers : pend[v].pc # "done"]]
    /\ UNCHANGED <<sysVars, normVars, aggVars, hist>>

\* Mutant: the partition is read again when it is written.
ExistingAtWrite(w) == ReadCsv(pend[w].key, FALSE)

\* existing_data of the thread: the partition as the thread read it.
ExistingData(w) == pend[w].existing

\* store_counts from the removal of the old entry to self._write_csv.
FinishStore(w, writeFails) ==
    /\ pend[w].pc = "read"
    /\ LET newData == Rec(pend[w].norm, pend[w].counts.severes,
                          pend[w].counts.warnings, pend[w].counts.alerts)
           wr == WriteCsv(pend[w].key, Upsert(ExistingData(w), newData),
                          writeFails)
       IN  /\ primary' = wr.primary
           /\ secondary' = wr.secondary
    /\ pend' = [pend EXCEPT ![w].pc = "done"]
    /\ UNCHANGED <<useLocal, clock, stores, last, normVars, aggVars, hist>>

Begin ==
    \E w \in Writers, timestamp \in RaceTimestamps, data \in CountInputs,
       readFails \in Outcomes : BeginStore(w, timestamp, data, readFails)

Finish == \E w \in Writers, writeFails \in Outcomes : FinishStore(w, writeFails)

NextRace == Begin \/ Finish

SpecRace == InitRace /\ [][NextRace]_vars

----------------------------------------------------------------------------
(* The retried calls: an operation of the storage object as the sequence   *)
(* of its calls through retry_operation, each run of a wrapped body a step *)

\* The wrapped functions an operation calls, in order: __init__ calls
\* ensure_bucket_exists, store_counts reads and writes its partition,
\* get_latest_counts reads one, get_counts_between_dates one per month.
WrappedCalls(op) ==
    CASE op = "init"   -> <<"ensure_bucket_exists">>
      [] op = "store"  -> <<"_read_csv", "_write_csv">>
      [] op = "latest" -> <<"_read_csv">>
      [] op = "range"  -> <<"_read_csv", "_read_csv">>

RetriedOps == {"init", "store", "latest", "range"}

\* The partition store_counts hands to _write_csv: of a record with numeric
\* counts, or of one with a str count.
WrittenData ==
    { <<Rec(Isoformat(DT(2024, 1, 1, 0, 0, 0, 0)), c.severes, c.warnings, c.alerts)>> :
        c \in OpsCounts }

\* The run of the wrapped body raises: ensure_bucket_exists when the bucket
\* can be neither fetched nor created, _read_csv and _write_csv as above.
BodyRaises(fn, data, gcsFails) ==
    CASE fn = "ensure_bucket_exists" -> gcsFails
      [] fn = "_read_csv"  -> ReadCsvRaising(<<>>, gcsFails)[1]
      [] fn = "_write_csv" -> WriteCsvRaising(<<>>, data, gcsFails)[1]

\* A call through the wrapper that has not run the body yet.
NewFrame(fn) ==
    [fn |-> fn, pc |-> "call", attempt |-> 0, runs |-> 0, sleeps |-> 0,
     raisedAt |-> {}, failedAt |-> {}]

InitRetry ==
    /\ useLocal \in BOOLEAN
    /\ primary = NoFiles
    /\ secondary = NoFiles
    /\ clock = 1
    /\ stores = 0
    /\ last = Idle
    /\ hist = HistIdle
    /\ \E op \in (IF useLocal THEN RetriedOps \ {"init"} ELSE RetriedOps),
          data \in WrittenData :
          pend = [op |-> op, data |-> data, todo |-> Tail(WrappedCalls(op)),
                  frame |-> NewFrame(Head(WrappedCalls(op))), completed |-> 0]
    /\ NormIdle
    /\ AggIdle

\* wrapper: return func(*args, **kwargs), or the except clause is entered.
RunBody(gcsFails) ==
    /\ pend.frame.pc = "call"
    /\ pend' = [pend EXCEPT
                  !.frame.runs = @ + 1,
                  !.frame.failedAt = IF gcsFails THEN @ \cup {pend.frame.attempt} ELSE @,
                  !.frame.raisedAt =
                      IF BodyRaises(pend.frame.fn, pend.data, gcsFails)
                        THEN @ \cup {pend.frame.attempt} ELSE @,
                  !.frame.pc =
                      IF BodyRaises(pend.frame.fn, pend.data, gcsFails)
                        THEN "except" ELSE "returned"]
    /\ UNCHANGED <<sysVars, normVars, aggVars, hist>>

\* Mutant: the wrapper sleeps after the last attempt as well.
SleepsAfterEvery(attempt) == TRUE

\* if attempt < max_attempts - 1: time.sleep(delay_seconds)
SleepsBeforeNext(attempt) == attempt < MaxAttempts - 1

\* wrapper's except clause and the head of its loop: the sleep, then the next
\* attempt or, after the last, raise last_exception.
Handle ==
    /\ pend.frame.pc = "except"
    /\ pend' = [pend EXCEPT
                  !.frame.sleeps = IF SleepsBeforeNext(pend.frame.attempt) THEN @ + 1 ELSE @,
                  !.frame.attempt = @ + 1,
                  !.frame.pc = IF pend.frame.attempt + 1 < MaxAttempts
                                 THEN "call" ELSE "raised"]
    /\ UNCHANGED <<sysVars, normVars, aggVars, hist>>

\* The caller goes on after the wrapped call returned or raised: __init__,
\* store_counts and the loop over the months catch what the wrapper raises.
\* A raise of ensure_bucket_exists sets use_local_storage.
Proceed ==
    /\ pend.frame.pc \in {"returned", "raised"}
    /\ pend.completed < Len(WrappedCalls(pend.op))
    /\ pend' = [pend EXCEPT
                  !.completed = @ + 1,
                  !.todo = IF Len(@) = 0 \/ (pend.op = "store" /\ pend.frame.pc = "raised")
                             THEN <<>> ELSE Tail(@),
                  !.frame = IF Len(pend.todo) = 0
                                 \/ (pend.op = "store" /\ pend.frame.pc = "raised")
                              THEN [pend.frame EXCEPT !.pc = "done"]
                              ELSE NewFrame(Head(pend.todo))]
    /\ useLocal' = IF pend.op = "init" /\ pend.frame.pc = "raised" THEN TRUE ELSE useLocal
    /\ UNCHANGED <<primary, secondary, clock, stores, last, normVars, aggVars, hist>>

NextRetry == (\E gcsFails \in Outcomes : RunBody(gcsFails)) \/ Handle \/ Proceed

\* A thread in a call is not held up for ever: the body returns or raises,
\* the sleep ends.
SpecRetry == InitRetry /\ [][NextRetry]_vars /\ WF_vars(NextRetry)

----------------------------------------------------------------------------
(* The repeated stores: store calls one after the other, from the stores    *)
(* as earlier runs left them                                                *)

\* What the two stores hold at the start, <<bucket, local cache>>: nothing;
\* the partition of an earlier store in both; the partition in the local
\* cache only, as a store whose upload failed leaves it.
PriorStores ==
    IF useLocal THEN {<<NoFiles, NoFiles>>, <<NoFiles, EarlierFiles>>}
    ELSE {<<NoFiles, NoFiles>>, <<EarlierFiles, EarlierFiles>>, <<NoFiles, EarlierFiles>>}

InitTwice ==
    /\ useLocal \in BOOLEAN
    /\ \E prior \in PriorStores : primary = prior[1] /\ secondary = prior[2]
    /\ clock = 1
    /\ stores = 0
    /\ last = Idle
    /\ hist = HistIdle
    /\ pend = <<>>
    /\ NormIdle
    /\ AggIdle

NextTwice == OpsStore

SpecTwice == InitTwice /\ [][NextTwice]_vars

----------------------------------------------------------------------------
(* The normaliser runs: _normalize_timestamp on a drawn string, then on    *)
(* its own result                                                          *)

NormDays == { <<2023, 12, 31>>, <<2024, 1, 1>>, <<2024, 2, 29>> }

NormClocks == { <<0, 0>>, <<59, 999999>>, <<30, 1>> }

NormZones == { <<FALSE, 0>>, <<TRUE, 0>>, <<TRUE, -330>> }

NormDates ==
    { [year |-> d[1], month |-> d[2], day |-> d[3], hour |-> h, minute |-> mi,
       second |-> c[1], microsecond |-> c[2], aware |-> z[1], offset |-> z[2]] :
        d \in NormDays, h \in {0, 23}, mi \in 0..59, c \in NormClocks, z \in NormZones }

\* Canonical strings, the shorter forms fromisoformat takes (date only, HH:MM,
\* a blank for the T), and strings it rejects (a bare separator, month 13,
\* minute 60, a letter in the year).
NormInputs ==
    {Isoformat(dt) : dt \in NormDates}
    \cup {Prefix(Isoformat(DT(2024, 1, 1, 23, mi, 0, 0)), 16) : mi \in 0..59}
    \cup {[Isoformat(DT(2024, 1, 1, 23, mi, 7, 0)) EXCEPT ![11] = Chr.space] : mi \in 0..59}
    \cup { Prefix(Isoformat(DT(2024, 2, 29, 0, 0, 0, 0)), 10),
           Prefix(Isoformat(DT(2024, 2, 29, 0, 0, 0, 0)), 11),
           Isoformat(DT(2024, 13, 1, 0, 0, 0, 0)),
           Isoformat(DT(2023, 2, 29, 0, 0, 0, 0)),
           Isoformat(DT(2024, 1, 1, 0, 60, 0, 0)),
           [Isoformat(DT(2024, 1, 1, 0, 0, 0, 0)) EXCEPT ![1] = Chr.x] }

InitNorm ==
    /\ SysIdle
    /\ AggIdle
    /\ nPhase = 0
    /\ nIn \in NormInputs
    /\ nOut = [ok |-> FALSE, ts |-> <<>>]
    /\ nOut2 = [ok |-> FALSE, ts |-> <<>>]

NormalizeOnce ==
    /\ nPhase = 0
    /\ nOut' = NormalizeTimestamp(nIn)
    /\ nPhase' = 1
    /\ UNCHANGED <<nIn, nOut2, sysVars, aggVars, auxVars>>

NormalizeAgain ==
    /\ nPhase = 1
    /\ nOut.ok
    /\ nOut2' = NormalizeTimestamp(nOut.ts)
    /\ nPhase' = 2
    /\ UNCHANGED <<nIn, nOut, sysVars, aggVars, auxVars>>

NextNorm == NormalizeOnce \/ NormalizeAgain

SpecNorm == InitNorm /\ [][NextNorm]_vars

----------------------------------------------------------------------------
(* The aggregator runs: _aggregate_data on a drawn list of data points     *)

MaxPoints == 3

AggTimes ==
    { Isoformat(DT(2024, 1, 1, 0, 0, 0, 0)),
      Isoformat(DT(2024, 1, 1, 0, 45, 0, 0)),
      Isoformat(DT(2024, 1, 1, 1, 0, 0, 0)),
      Isoformat(Aware(DT(2024, 1, 1, 0, 15, 0, 0), 0)) }

AggCounts == { <<0, 7, 0>>, <<1, 4, 12>>, <<2, 1, 25>> }

AggPoints == { Rec(t, c[1], c[2], c[3]) : t \in AggTimes, c \in AggCounts }

\* The widths get_counts_between_dates passes.
AggHours == {1, 2, 6}

InitAgg ==
    /\ SysIdle
    /\ NormIdle
    /\ aPhase = 0
    /\ aHours \in AggHours
    /\ aIn \in UNION {[1..n -> AggPoints] : n \in 0..MaxPoints}
    /\ aOut = <<>>

Aggregate ==
    /\ aPhase = 0
    /\ aOut' = AggregateData(aIn, aHours)
    /\ aPhase' = 1
    /\ UNCHANGED <<aIn, aHours, sysVars, normVars, auxVars>>

NextAgg == Aggregate

SpecAgg == InitAgg /\ [][NextAgg]_vars

----------------------------------------------------------------------------
(* Properties of the store runs                                            *)

\* The rows of a partition; none when the file does not exist.
Partition(store, key) == IF key \in DOMAIN store THEN store[key] ELSE <<>>

RowsAt(store, key, ts) ==
    {i \in 1..Len(Partition(store, key)) : Partition(store, key)[i].timestamp = ts}

HoldsOnce(store, key, ts, counts) ==
    /\ Cardinality(RowsAt(store, key, ts)) = 1
    /\ \A i \in RowsAt(store, key, ts) :
         ParseRow(store[key][i]) = Rec(ts, counts.severes, counts.warnings, counts.alerts)

\* C1: when store(t, c) returns, the month partition of normalize(t) holds
\* exactly one record with the timestamp normalize(t), and its counts are c,
\* whatever earlier stores wrote for that timestamp (last write wins).  This
\* is so of the local partition in every run and of the bucket's partition in
\* every run where the upload did not fail.
C1_UpsertLastWriteWins ==
    last.op = "store" =>
        /\ last.key = MonthKey(FromIsoformat(last.norm).dt)
        /\ last.wroteSecondary
        /\ HoldsOnce(secondary, last.key, last.norm, last.counts)
        /\ (~useLocal /\ ~last.writeFails) =>
               (last.wrotePrimary /\ HoldsOnce(primary, last.key, last.norm, last.counts))

\* A second store for a timestamp replaced a record holding other counts.
C1_Witness ==
    /\ last.op = "store"
    /\ last.ts # last.norm
    /\ \E i \in 1..Len(last.existing) :
         /\ last.existing[i].timestamp = last.norm
         /\ last.existing[i] # Rec(last.norm, last.counts.severes,
                                   last.counts.warnings, last.counts.alerts)

StrictlyAscending(rows) ==
    \A i \in 1..(Len(rows) - 1) : StrLess(rows[i].timestamp, rows[i + 1].timestamp)

\* C2: every persisted month partition, in the bucket and in the local cache,
\* is sorted ascending by timestamp and holds no timestamp twice, after any
\* sequence of stores with any pattern of failing bucket reads and uploads.
C2_PartitionsSortedUnique ==
    /\ \A key \in DOMAIN primary : StrictlyAscending(primary[key])
    /\ \A key \in DOMAIN secondary : StrictlyAscending(secondary[key])

\* A store whose upload failed put its record in front of an older one.
C2_Witness ==
    /\ last.op = "store" /\ ~useLocal /\ last.writeFails
    /\ Len(Partition(secondary, last.key)) >= 2
    /\ secondary[last.key][1].timestamp = last.norm

InRangeStr(ts, startDate, endDate) ==
    StrLeq(Isoformat(startDate), ts) /\ StrLeq(ts, Isoformat(endDate))

RangeOrdered(records, startDate, endDate) ==
    /\ \A i \in 1..Len(records) : InRangeStr(records[i].timestamp, startDate, endDate)
    /\ StrictlyAscending(records)

\* C3 as stated: every record a range query returns lies in [start, end], and
\* the result is sorted ascending without a repeated timestamp, also when no
\* stored record lies in the range.
C3_RangeAlwaysWithin ==
    last.op = "range" =>
        /\ RangeOrdered(last.raw, last.start, last.end)
        /\ RangeOrdered(last.result, last.start, last.end)

\* C3 amended: the result of a range query, from the storage layer and from
\* the database layer, is either the single default record stamped now, or
\* records that all lie in [start, end], sorted ascending, no timestamp twice.
C3_RangeWithinOrDefault ==
    last.op = "range" =>
        /\ last.raw = DefaultResponse(last.now)
             \/ RangeOrdered(last.raw, last.start, last.end)
        /\ last.result = DefaultResponse(last.now)
             \/ RangeOrdered(last.result, last.start, last.end)

\* A range over two partitions returned records of both months.
C3_Witness ==
    /\ last.op = "range"
    /\ Len(last.months) = 2
    /\ Len(last.result) >= 2
    /\ Prefix(last.result[1].timestamp, 7) = last.months[1]
    /\ Prefix(last.result[Len(last.result)].timestamp, 7) = last.months[2]

\* C4: every read (latest, range query, range query with aggregation) returns
\* at least one record.
C4_ReadsNeverEmpty ==
    last.op \in {"latest", "range"} => Len(last.result) >= 1

\* C5: latest() looks only at the current month's partition of the store it
\* reads (the bucket, or the local cache when the bucket read fails): it
\* returns the record of that partition with the greatest timestamp, and the
\* zero-count default record stamped now when that partition is absent or
\* empty, whatever the partitions of other months hold.
C5_LatestOfCurrentMonth ==
    last.op = "latest" =>
        LET part == Partition(IF useLocal \/ last.readFails THEN secondary ELSE primary,
                              MonthKey(last.now))
        IN  /\ Len(last.result) = 1
            /\ Len(part) = 0 => last.result[1] = Rec(Isoformat(last.now), 0, 0, 0)
            /\ Len(part) > 0 =>
                 /\ \E i \in 1..Len(part) : last.result[1] = ParseRow(part[i])
                 /\ \A i \in 1..Len(part) :
                      StrLeq(part[i].timestamp, last.result[1].timestamp)

\* In February latest() returned the default although January has records.
C5_Witness ==
    /\ last.op = "latest"
    /\ last.result = DefaultResponse(last.now)
    /\ last.now.month = 2
    /\ \E key \in DOMAIN secondary :
         key # MonthKey(last.now) /\ Len(secondary[key]) > 0

\* The row's timestamp is on a quarter hour and its month names the partition.
RowAligned(row, key) ==
    LET p == FromIsoformat(row.timestamp)
    IN  /\ p.ok
        /\ p.dt.minute \in {0, 15, 30, 45}
        /\ p.dt.second = 0
        /\ p.dt.microsecond = 0
        /\ key = MonthKey(p.dt)

\* C6: every persisted record has a timestamp on a quarter hour (minute 0, 15,
\* 30 or 45, second 0, microsecond 0) and is in the partition named by the
\* year and month of that timestamp.
C6_StoredAlignedInOwnMonth ==
    /\ \A key \in DOMAIN primary :
         \A i \in 1..Len(primary[key]) : RowAligned(primary[key][i], key)
    /\ \A key \in DOMAIN secondary :
         \A i \in 1..Len(secondary[key]) : RowAligned(secondary[key][i], key)

\* A timestamp with seconds and microseconds, off the quarter hour, was stored.
C6_Witness ==
    /\ last.op = "store"
    /\ FromIsoformat(last.ts).dt.second # 0
    /\ FromIsoformat(last.ts).dt.microsecond # 0
    /\ FromIsoformat(last.ts).dt.minute \notin {0, 15, 30, 45}
    /\ \E i \in 1..Len(Partition(secondary, last.key)) :
         secondary[last.key][i].timestamp = last.norm

\* end - start exceeds n days: by the calendar days between the two dates and
\* the times of day.
SpanExceedsDays(startDate, endDate, n) ==
    LET days == Ordinal(endDate) - Ordinal(startDate)
        tod(dt) == <<0, dt.hour * 3600 + dt.minute * 60 + dt.second, dt.microsecond>>
    IN  days > n \/ (days = n /\ TripleLess(tod(startDate), tod(endDate)))

BucketHoursOfSpan(startDate, endDate) ==
    IF SpanExceedsDays(startDate, endDate, 7) THEN 6
    ELSE IF SpanExceedsDays(startDate, endDate, 2) THEN 2
    ELSE IF SpanExceedsDays(startDate, endDate, 1) THEN 1
    ELSE 0

\* C9: the bucket width depends on end - start alone: over 7 days 6 hours,
\* over 2 days up to 7 days 2 hours, over 1 day up to 2 days 1 hour, and up
\* to 1 day none, the records of the storage layer being returned unchanged.
C9_BucketWidthBySpan ==
    last.op = "range" =>
        /\ last.hours = BucketHoursOfSpan(last.start, last.end)
        /\ last.hours = 0 => last.result = last.raw
        /\ last.hours # 0 => last.result = AggregateData(last.raw, last.hours)

\* A span of exactly 7 days over stored records was aggregated by 2 hours.
C9_Witness ==
    /\ last.op = "range"
    /\ Ordinal(last.end) - Ordinal(last.start) = 7
    /\ last.end.microsecond = 0
    /\ last.hours = 2
    /\ last.raw # DefaultResponse(last.now)
    /\ Len(last.result) >= 1

----------------------------------------------------------------------------
(* Properties of the normaliser runs                                       *)

\* a <= b on the time line
TripleLeq(a, b) == ~TripleLess(b, a)

C8_NormalizeIdempotent ==
    nPhase = 2 => (nOut2.ok /\ nOut2.ts = nOut.ts)

\* A timestamp the first normalisation changed was normalised again.
C8_Witness ==
    /\ nPhase = 2
    /\ nOut.ts # nIn
    /\ FromIsoformat(nOut.ts).dt.minute = 45

----------------------------------------------------------------------------
(* Properties of the aggregator runs                                       *)

\* Point e of the input is an earliest one, and every point lies less than
\* the bucket width after it.
OneBucketFrom(e) ==
    /\ \A i \in 1..Len(aIn) : FromIsoformat(aIn[i].timestamp).ok
    /\ \A i \in 1..Len(aIn) :
         LET pi == FromIsoformat(aIn[i].timestamp).dt
             pe == FromIsoformat(aIn[e].timestamp).dt
         IN  /\ Comparable(pi, pe)
             /\ TripleLeq(Instant(pe), Instant(pi))
             /\ BeforePlusHours(pi, pe, aHours)

FieldValues(f) == {aIn[i][f] : i \in 1..Len(aIn)}

\* out is an integer nearest to the mean of field f over the input.
NearestToMean(out, f) ==
    LET n == Len(aIn)
        d == n * out - SumField(aIn, f)
    IN  /\ 2 * d <= n
        /\ 2 * (0 - d) <= n
        /\ \E lo \in FieldValues(f) : lo <= out
        /\ \E hi \in FieldValues(f) : out <= hi
        /\ n = 1 => out = aIn[1][f]

\* C10: n >= 1 records that all lie less than one bucket width after the
\* earliest of them are aggregated to exactly one record: its timestamp is
\* the earliest record's, and each of its counts is the mean of that field
\* over the n records rounded to the nearest integer, so it lies between the
\* least and the greatest input and for n = 1 equals the input.
C10_OneBucketRoundedMean ==
    (aPhase = 1 /\ Len(aIn) >= 1) =>
        \A e \in 1..Len(aIn) :
            OneBucketFrom(e) =>
                /\ Len(aOut) = 1
                /\ aOut[1].timestamp = aIn[e].timestamp
                /\ \A f \in {"severes", "warnings", "alerts"} : NearestToMean(aOut[1][f], f)

\* Three records of one bucket whose mean alerts is not an integer and is
\* rounded up.
C10_Witness ==
    /\ aPhase = 1
    /\ Len(aIn) = 3
    /\ \E e \in 1..3 : OneBucketFrom(e)
    /\ aIn[1].timestamp # aIn[3].timestamp
    /\ 2 * (SumField(aIn, "alerts") % 3) > 3
    /\ Len(aOut) = 1
    /\ 3 * aOut[1].alerts > SumField(aIn, "alerts")
----------------------------------------------------------------------------
(* Properties of the operation runs                                        *)

\* The records of seq at the 0-based positions [(page-1)*perPage, page*perPage).
PageSlice(seq, page, perPage) ==
    SubSeq(seq, (page - 1) * perPage + 1,
           IF page * perPage < Len(seq) THEN page * perPage ELSE Len(seq))

\* C11: a range query called with page >= 1 and perPage >= 1 returns the
\* slice [(page-1)*perPage, page*perPage) of the sorted result of the query
\* without page arguments, and the single default record when that slice is
\* empty.
C11_PageIsSliceOfResult ==
    (last.op = "historical" /\ last.page >= 1 /\ last.perPage >= 1) =>
        LET full  == CallCountsBetween(<<last.start, last.end>>, last.failing, last.now)
            slice == PageSlice(full.result, last.page, last.perPage)
        IN  /\ ~last.raised
            /\ last.result = IF Len(slice) = 0 THEN DefaultResponse(last.now) ELSE slice

\* C12: no call of store, latest, the range query or the historical route
\* lets an exception reach its caller, whatever the timestamp handed to store
\* and whatever page and per_page the route passes on.
C12_NoExceptionReachesCaller ==
    /\ last.op # "store_raised"
    /\ last.op \in {"latest", "range", "historical"} => ~last.raised

\* The partition of the store holds the row written for the record (ts, counts).
HoldsRow(store, key, ts, counts) ==
    \E i \in 1..Len(Partition(store, key)) :
        store[key][i] = CsvRow(Rec(ts, counts.severes, counts.warnings, counts.alerts))

\* C13: whenever store(t, c) with a valid timestamp returns, the record
\* (normalize(t), c) is in the month partition of the bucket or of the local
\* cache; when the write to the bucket fails, the failure of the validation
\* before the upload included, the record is written to the local cache.
C13_StoreReturnsOnlyAfterPersisting ==
    last.op = "store" =>
        /\ HoldsRow(primary, last.key, last.norm, last.counts)
             \/ HoldsRow(secondary, last.key, last.norm, last.counts)
        /\ ~last.wrotePrimary => last.wroteSecondary

\* The range query without the check of the date range.
UncheckedCountsBetween(startDate, endDate, failing, nowDt) ==
    LET allData  == ReadMonths(Months(startDate, endDate), failing)
        filtered ==
          SortByTimestamp(SelectSeq(allData,
              LAMBDA d : InRange(d, Isoformat(startDate), Isoformat(endDate))))
        results  == IF Len(allData) = 0 \/ ~ValidateDataStructure(allData)
                       \/ Len(filtered) = 0
                      THEN DefaultResponse(nowDt) ELSE filtered
    IN  CountsBetween(results, startDate, endDate, nowDt)

\* C14: a range query with start > end reads no partition and returns the
\* single zero-count default record, without an exception; a range whose end
\* lies after now or whose span exceeds 365 days is answered as the query
\* without the check of the range would answer it.
C14_OnlyReversedRangeRejected ==
    last.op = "range" =>
        /\ ~last.raised
        /\ TripleLess(Instant(last.end), Instant(last.start)) =>
             /\ last.months = <<>>
             /\ ~hist.contacted /\ hist.readAttempts = 0
             /\ last.result = DefaultResponse(last.now)
        /\ ~TripleLess(Instant(last.end), Instant(last.start)) =>
             /\ last.months = Months(last.start, last.end)
             /\ last.result =
                  UncheckedCountsBetween(last.start, last.end,
                      IF hist.readFailed
                        THEN {last.months[i] : i \in 1..Len(last.months)} ELSE {},
                      last.now)

\* A reversed range was answered with the default record although the
\* partitions of its months hold records.
C14_Witness ==
    /\ last.op = "range"
    /\ TripleLess(Instant(last.end), Instant(last.start))
    /\ last.result = DefaultResponse(last.now)
    /\ \E key \in DOMAIN secondary : key = MonthKey(last.start) /\ Len(secondary[key]) > 0

\* C15: in bucket mode and in local mode alike, a record with a count that is
\* not a number (or with a timestamp that cannot be parsed) is never written
\* to the bucket or to the local cache: the write of it fails on every
\* attempt of the retry.
C15_InvalidRecordNeverWritten ==
    (/\ last.op = "store"
     /\ ~ValidateDataStructure(<<Rec(last.norm, last.counts.severes,
                                     last.counts.warnings, last.counts.alerts)>>)) =>
        /\ ~last.wrotePrimary
        /\ ~last.wroteSecondary
        /\ hist.writeAttempts = MaxAttempts

----------------------------------------------------------------------------
(* The aggregator on no records                                            *)

\* C16: aggregating the empty sequence of records returns the empty
\* sequence, for each of the bucket widths 1, 2 and 6 hours.
C16_AggregateOfNoneIsNone ==
    (aPhase = 1 /\ Len(aIn) = 0) => aOut = <<>>

\* The empty sequence was aggregated with the widest bucket.
C16_Witness ==
    /\ aPhase = 1
    /\ aIn = <<>>
    /\ aHours = 6
    /\ aOut = <<>>

----------------------------------------------------------------------------
(* Properties of the overlapping stores                                    *)

\* Both threads have returned from store_counts, each read the partition
\* before either wrote it, and their normalised timestamps differ within one
\* month.
BothReadBeforeEitherWrote ==
    /\ \A w \in Writers : pend[w].pc = "done" /\ pend[w].early
    /\ pend["job"].norm # pend["main"].norm
    /\ pend["job"].key = pend["main"].key

InLocalPartition(w) ==
    HoldsRow(secondary, pend[w].key, pend[w].norm, pend[w].counts)

\* C17: store_counts takes no lock between reading the partition and writing
\* it whole, so when two stores of different quarter hours of one month both
\* read the partition before either writes it, both return and the partition
\* holds the record of one of them only: the other update is lost.
C17_OverlappingStoresLoseOne ==
    BothReadBeforeEitherWrote =>
        /\ InLocalPartition("job") \/ InLocalPartition("main")
        /\ ~(InLocalPartition("job") /\ InLocalPartition("main"))

\* Both stores overlapped and returned, and the partition, which held an
\* earlier record, holds that record and the main thread's, not the job's.
C17_Witness ==
    /\ BothReadBeforeEitherWrote
    /\ Len(Partition(secondary, pend["job"].key)) = 2
    /\ InLocalPartition("main")
    /\ ~InLocalPartition("job")

----------------------------------------------------------------------------
(* Properties of the retries and of the fallback                           *)

\* C18: a partition read whose bucket call fails is attempted the fixed
\* number of times (3) before the partition of the local cache is returned.
C18_FailedReadRetriedThrice ==
    hist.readFailed => hist.readAttempts = MaxAttempts

\* The local files are in use for good: the initialisation failed, or a call
\* made so far took the local fallback after a failed bucket read or upload.
FallenBack == useLocal \/ hist.fellBack

\* C19: once the store has fallen back to the local files, at initialisation
\* or in a call whose bucket read or upload failed, no later call contacts
\* the bucket.
C19_FallbackIsSticky ==
    [][FallenBack => ~hist'.contacted]_vars

\* The timestamp lies in [start, end] as the range filter compares it.
Covers(startDate, endDate, ts) ==
    StrLeq(Isoformat(startDate), ts) /\ StrLeq(ts, Isoformat(endDate))

\* C20: a range query of at most one day, made after store(t, c) returned
\* for numeric counts c and covering normalize(t), returns a record with the
\* timestamp normalize(t) and the counts c (those of the latest store for
\* that timestamp), whichever bucket reads and uploads failed in between.
C20_RangeReadsWhatWasStored ==
    (/\ last.op = "range"
     /\ ~TripleLess(Instant(last.end), Instant(last.start))
     /\ last.hours = 0) =>
        \A d \in hist.stored :
            (ValidateDataStructure(<<d>>) /\ Covers(last.start, last.end, d.timestamp)) =>
                \E i \in 1..Len(last.result) : last.result[i] = d

----------------------------------------------------------------------------
(* Properties of sequences of stores                                       *)

\* The record is in its month's partition of the bucket or of the local cache.
Retained(d) ==
    \E store \in {primary, secondary} :
        \E i \in 1..Len(Partition(store, Prefix(d.timestamp, 7))) :
            store[Prefix(d.timestamp, 7)][i] = CsvRow(d)

\* C21: once store(t, c) has returned for numeric counts c, the record of
\* normalize(t) stays in its partition through every later store of another
\* timestamp, one after the other, whichever bucket reads and uploads fail:
\* after any such sequence each record stored (the latest per timestamp) is
\* still in the partition of the bucket or of the local cache.
C21_StoredRecordsRetained ==
    \A d \in hist.stored : ValidateDataStructure(<<d>>) => Retained(d)

----------------------------------------------------------------------------
(* Properties of the aggregator's buckets                                  *)

SortedByTimestamp(seq) ==
    \A i \in 1..(Len(seq) - 1) : StrLeq(seq[i].timestamp, seq[i + 1].timestamp)

\* Every timestamp of the input parses.
AllParse == \A i \in 1..Len(aIn) : FromIsoformat(aIn[i].timestamp).ok

\* The timestamps are all naive or all carry an offset.
OneKind ==
    \A i, j \in 1..Len(aIn) :
        Comparable(FromIsoformat(aIn[i].timestamp).dt, FromIsoformat(aIn[j].timestamp).dt)

InDt(i) == FromIsoformat(aIn[i].timestamp).dt

\* The bucket start at or before position i, starts being the positions in B.
StartAt(B, i) == CHOOSE b \in B : b <= i /\ \A c \in B : c <= i => c <= b

\* The j-th position of B in ascending order.
Nth(B, j) == CHOOSE b \in B : Cardinality({c \in B : c <= b}) = j

\* B holds the positions where a bucket opens: the first record, and every
\* record that is not less than the width after the start of the bucket open
\* when it comes; every other record is less than the width after its start.
FloatingStarts(B) ==
    /\ 1 \in B
    /\ \A i \in 2..Len(aIn) :
         i \in B <=> ~BeforePlusHours(InDt(i), InDt(StartAt(B, i - 1)), aHours)

\* aOut has one record per bucket of B: stamped with the timestamp of the
\* record that opened the bucket, its counts the rounded means over the
\* records from that one up to the one before the next bucket opens.
OutputOfBuckets(B) ==
    /\ Len(aOut) = Cardinality(B)
    /\ \A j \in 1..Cardinality(B) :
         LET b == Nth(B, j)
             e == IF j = Cardinality(B) THEN Len(aIn) ELSE Nth(B, j + 1) - 1
             members == SubSeq(aIn, b, e)
         IN  /\ aOut[j].timestamp = aIn[b].timestamp
             /\ \A f \in {"severes", "warnings", "alerts"} :
                  aOut[j][f] = RoundMean(SumField(members, f), Len(members))

\* What follows for the output: it is no longer than the input, its
\* timestamps are timestamps of input records, and each is at least the
\* width after the one before it.
OutputFloats ==
    /\ Len(aOut) >= 1
    /\ Len(aOut) <= Len(aIn)
    /\ aOut[1].timestamp = aIn[1].timestamp
    /\ \A j \in 1..Len(aOut) : \E i \in 1..Len(aIn) : aOut[j].timestamp = aIn[i].timestamp
    /\ \A j \in 1..(Len(aOut) - 1) :
         /\ StrLess(aOut[j].timestamp, aOut[j + 1].timestamp)
         /\ ~BeforePlusHours(FromIsoformat(aOut[j + 1].timestamp).dt,
                             FromIsoformat(aOut[j].timestamp).dt, aHours)

----------------------------------------------------------------------------
(* Properties of the months a range query reads                            *)

\* The key "YYYY-MM" of the k-th month counted from January of year 0.
KeyOfMonthNumber(k) == Pad4(k \div 12) \o <<Chr.dash>> \o Pad2((k % 12) + 1)

MonthNumber(dt) == dt.year * 12 + dt.month - 1

\* The store the partition reads of the last call were answered from.
Consulted == IF useLocal \/ hist.readFailed THEN secondary ELSE primary

\* The records in [start, end] of the partitions of the given months, a
\* month without a partition giving none.
WantedOf(months, startDate, endDate) ==
    { d \in UNION { {ParseRow(Consulted[months[m]][i]) :
                        i \in 1..Len(Consulted[months[m]])} :
                    m \in {n \in 1..Len(months) : months[n] \in DOMAIN Consulted} } :
        InRangeStr(d.timestamp, startDate, endDate) }

\* C23: for start <= end the range query reads the partitions of the months
\* from start's year and month through end's, each once, in ascending order,
\* through a change of year as well; a month without a partition gives no
\* records and no error; the list of months is finite.
C23_ReadsEveryMonthOfRange ==
    (last.op = "range" /\ ~TripleLess(Instant(last.end), Instant(last.start))) =>
        LET wanted == WantedOf(last.months, last.start, last.end)
        IN  /\ Len(last.months) = MonthNumber(last.end) - MonthNumber(last.start) + 1
            /\ \A i \in 1..Len(last.months) :
                 last.months[i] = KeyOfMonthNumber(MonthNumber(last.start) + i - 1)
            /\ ~last.raised
            /\ wanted = {} => last.raw = DefaultResponse(last.now)
            /\ wanted # {} =>
                 /\ Len(last.raw) = Cardinality(wanted)
                 /\ {last.raw[i] : i \in 1..Len(last.raw)} = wanted

\* A range from January 2023 into February 2024 listed fourteen months, went
\* from 2023-12 to 2024-01, found no partition for 2023-12 and returned the
\* records of 2024-01.
C23_Witness ==
    /\ last.op = "range"
    /\ Len(last.months) = 14
    /\ last.months[12] = Prefix(Isoformat(DT(2023, 12, 1, 0, 0, 0, 0)), 7)
    /\ last.months[13] = Prefix(Isoformat(DT(2024, 1, 1, 0, 0, 0, 0)), 7)
    /\ last.months[12] \notin DOMAIN Consulted
    /\ last.months[13] \in DOMAIN Consulted
    /\ last.raw # DefaultResponse(last.now)
    /\ Prefix(last.raw[1].timestamp, 7) = last.months[13]

----------------------------------------------------------------------------
(* Properties of the retried calls                                         *)

\* The wrapper ran the body at most 3 times, stopped at the first run that
\* did not raise, slept after each failed run but the third, and raises only
\* after three failed runs.
RetryBounded ==
    LET f == pend.frame
    IN  /\ f.runs <= MaxAttempts
        /\ f.sleeps <= MaxAttempts - 1
        /\ f.pc \in {"returned", "done"} /\ f.raisedAt # (0..(f.runs - 1)) =>
             /\ f.raisedAt = 0..(f.runs - 2)
             /\ f.sleeps = f.runs - 1
        /\ f.pc = "raised" \/ (f.pc = "done" /\ f.raisedAt = 0..(f.runs - 1)) =>
             /\ f.runs = MaxAttempts
             /\ f.sleeps = MaxAttempts - 1

\* The operation has returned to its caller.
Completed == pend.frame.pc = "done" /\ pend.todo = <<>>

\* C24: the retry wrapper runs the wrapped operation at most 3 times, returns
\* at the first run that succeeds, sleeps between attempts and not after the
\* last, and raises after 3 failed runs; and every init, store, latest and
\* range operation eventually completes, also when every bucket call fails.
C24_RetriesBoundedAndComplete ==
    []RetryBounded /\ <>Completed

\* A store in bucket mode whose bucket calls all failed completed: its write
\* of a record with a str count was run 3 times with 2 sleeps and raised.
C24_Witness ==
    /\ Completed
    /\ pend.op = "store"
    /\ pend.frame.fn = "_write_csv"
    /\ pend.frame.runs = MaxAttempts
    /\ pend.frame.failedAt = 0..(MaxAttempts - 1)
    /\ pend.frame.raisedAt = 0..(MaxAttempts - 1)
    /\ pend.frame.sleeps = MaxAttempts - 1

----------------------------------------------------------------------------
(* Properties of what a call changes                                       *)

\* The month keys whose partition differs between the two stores of files.
Changed(before, after) ==
    {k \in DOMAIN before \cup DOMAIN after :
        \/ (k \in DOMAIN before) # (k \in DOMAIN after)
        \/ Partition(before, k) # Partition(after, k)}

\* The year and month of normalize(ts), as a partition key.
KeyOfTimestamp(ts) == MonthKey(FromIsoformat(NormalizeTimestamp(ts).ts).dt)

\* The step changes no partition but, when it is a store that returns, the
\* one of the month of the normalised timestamp.
OnlyOwnPartitionChanged ==
    LET changed == Changed(primary, primary') \cup Changed(secondary, secondary')
    IN  /\ changed # {} =>
             /\ last'.op = "store"
             /\ changed = {KeyOfTimestamp(last'.ts)}
        /\ last'.op \in {"latest", "range", "store_raised"} => changed = {}

\* C25: store(t, c) changes only the partition of the year and month of
\* normalize(t), in the bucket and in the local cache, and leaves every other
\* month's partition as it was; latest and the range queries change no
\* partition of either store, also when they read the local cache after a
\* failed bucket read or return the default record.
C25_OnlyOwnPartitionChanges ==
    [][OnlyOwnPartitionChanged]_vars

\* A store of a February timestamp returned while the January partition
\* holds records, in the bucket and in the local cache.
C25_Witness ==
    /\ last.op = "store"
    /\ ~useLocal
    /\ last.wrotePrimary
    /\ last.key = KeyOfTimestamp(last.ts)
    /\ \E k \in DOMAIN primary \cap DOMAIN secondary :
         /\ k # last.key
         /\ Len(primary[k]) > 0
         /\ Len(secondary[k]) > 0

----------------------------------------------------------------------------
(* Properties of the repeated stores                                       *)

\* The bucket read and the upload of the last store call did not fail.
StoredWithoutFailure == last.op = "store" /\ ~hist.readFailed /\ ~last.writeFails

\* The step is a store with the timestamp and the counts of the store before
\* it, neither with a failing bucket call.
StoredAgain ==
    /\ StoredWithoutFailure
    /\ StoredWithoutFailure'
    /\ stores' = stores + 1
    /\ last'.ts = last.ts
    /\ last'.counts = last.counts

=============================================================================
